---- MODULE Spec2Model ----
(***************************************************************************)
(* The chunked CSV export flow of TemperatureDashboard.tsx: the download   *)
(* filter state, previewDownload, executeDownload and the paginated        *)
(* endpoint they talk to.                                                  *)
(*                                                                         *)
(* An action is one synchronous run of a handler: from a click (or from    *)
(* the resumption after an await) to the next await or to the return.      *)
(* The endpoint is external to the component; a response is chosen by the  *)
(* action that resumes the handler after the awaited fetch.                *)
(*                                                                         *)
(* Text is modelled as a sequence of lines; each line is the string the    *)
(* template literal builds, its final newline included.                    *)
(*                                                                         *)
(* A control that is disabled cannot raise its event: the filter inputs    *)
(* and the two buttons are disabled while downloadLoading, the date inputs *)
(* also while a month is set. The two buttons' handlers check the          *)
(* selection and the summary themselves; those checks are modelled in the  *)
(* handlers (PreviewRejected, ExecRejected) and not a second time as a     *)
(* condition on the click.                                                 *)
(***************************************************************************)
EXTENDS Integers, Sequences, FiniteSets, TLC

(***************************************************************************)
(* Bounds of the model.                                                    *)
(***************************************************************************)
\* How many automatic loads the temperature-points endpoint may answer with a
\* failure between two resets; the component itself sets no limit.
MaxAutoLoads == 2

\* How many redirects a browser follows in one navigation before it gives
\* up (browsers stop at about twenty).
MaxRedirects == 3

\* The page size. The component uses 5000 (CHUNK_SIZE, line 391); the model
\* pages by a small number of records so that sessions of one, two and three
\* pages, with full and with short last pages, are all explored.
CHUNK_SIZE == 2

\* The largest number of records that match a filter, and the largest total
\* a preview reports.
MaxTotal == 5

\* The months offered by the month select are 1..NumMonths (12 in the code).
NumMonths == 1

(***************************************************************************)
(* Values.                                                                 *)
(***************************************************************************)
\* downloadMonth is number | null; null is 0 here, which the code's
\* truthiness tests (if (downloadMonth), !downloadMonth) treat alike.
NoMonth == 0

Months == 1..NumMonths

\* <input type="date"> yields "" or a date.
Dates == {"", "2024-06-01"}

\* <input type="time"> yields "" or HH:MM.
Times == {"", "08:00"}

\* downloadTransport is string | null.
NoTransport == "null"

TransportTypes == {"Walking"}

MonthLabel(m) ==
  CASE m = 1 -> "January"
    [] m = 2 -> "February"
    [] m = 3 -> "March"
    [] m = 4 -> "April"
    [] m = 5 -> "May"
    [] m = 6 -> "June"
    [] m = 7 -> "July"
    [] m = 8 -> "August"
    [] m = 9 -> "September"
    [] m = 10 -> "October"
    [] m = 11 -> "November"
    [] m = 12 -> "December"
    [] OTHER -> "undefined"

\* A number that is NaN, or the number v.
NaN == [nan |-> TRUE, v |-> 0]

Num(n) == [nan |-> FALSE, v |-> n]

\* downloadSummary is DownloadSummary | null.
NoSummary ==
  [present |-> FALSE, count |-> 0, dateRange |-> "", timeRange |-> "",
   transport |-> "", estimatedSizeMB100 |-> 0]

Min(a, b) == IF a < b THEN a ELSE b

Max(a, b) == IF a > b THEN a ELSE b

\* Math.round of the non-negative rational p / q, q > 0: the nearest integer,
\* halves rounded up.
RoundDiv(p, q) == (2 * p + q) \div (2 * q)

RECURSIVE Flatten(_)
\* The concatenation of a sequence of texts.
Flatten(parts) ==
  IF parts = << >> THEN << >> ELSE Head(parts) \o Flatten(Tail(parts))

RECURSIVE SumFetched(_)
SumFetched(pages) ==
  IF pages = << >> THEN 0
  ELSE Head(pages).fetchedCount + SumFetched(Tail(pages))

VARIABLES
  \* React state of the component (lines 125-133)
  downloadStartDate, downloadEndDate, downloadStartTime, downloadEndTime,
  downloadTransport, downloadMonth, downloadLoading, downloadSummary,
  downloadProgress,
  \* process.env has both NEXT_PUBLIC_SUPABASE_URL and ..._ANON_KEY
  configured,
  \* where the running handler is suspended: "idle" (no handler runs),
  \* "preview" (previewDownload awaits its fetch), "page" (executeDownload
  \* awaits a page), "pause" (executeDownload awaits the 10 ms timeout)
  pc,
  \* locals of the running executeDownload
  payload, blobParts, offset, hasMore, totalFetched,
  \* requests sent to the endpoint and not yet answered
  inflight,
  \* the number of records that match the filters of the download session
  \* the log below is about (0 when it is about no download session)
  serverTotal,
  \* what the most recent invocation of previewDownload or executeDownload
  \* did, in order: which handler it was, the requests it sent, the
  \* responses it received, the progress values it set, the alerts it
  \* raised and the files it saved. The log is kept until the next user
  \* event, which starts an empty one.
  op, reqLog, responses, progressLog, alerts, fileSaves,
  \* the map side of TemperatureDashboard (lines 112-122): whether
  \* mapRef.current is set, the map filter state, the points on the map
  \* and the flags of fetchPoints
  mapReady, selectedDate, startTime, endTime, transport, mapStyle, loading,
  lastResult, temperaturePoints, hasInitiallyLoaded,
  \* the date getDefaultDates() returns now
  today,
  \* the calls of get-temperature-points not yet answered
  mapInflight,
  \* the dependencies [mapRef.current, hasInitiallyLoaded, loading] the
  \* auto-load effect saw when it last ran, and whether the component has
  \* re-rendered since
  effectDeps, renderPending,
  \* the number of fetchPoints(true) calls that sent a request since the
  \* last resetToDefaults (or since mount); whether a resetToDefaults is
  \* still owed its automatic fetch: true from the reset until such a call
  \* is made with the default filters or the user edits a map filter; how
  \* the fetchPoints call that ended last ended ("none" after a user event
  \* that is not such an end)
  autoCount, awaitingAuto, mapOutcome,
  \* the site around the dashboards: whether the browser's cookies hold a
  \* Supabase session; the path of the request under way ("none" when no
  \* navigation is under way) and the number of redirects the browser has
  \* followed in this navigation; the page the browser shows; the tab of
  \* DashboardTabs (line 10)
  session, requestPath, redirects, sitePage, activeTab,
  \* what the middleware did with the request it handled last: the session
  \* and the path it saw and what it answered
  lastDecision,
  \* React state of SubmissionDashboard (lines 36-60): two of the
  \* server-side filters, the search term, the sort state, the rows of the
  \* last response (data) and the loading flag
  transportFilter, emailFilter, searchTerm, sortConfig, submissions,
  subLoading,
  \* the requests to /api/dashboard not yet answered, and the user event
  \* or response SubmissionDashboard handled last
  subInflight, subEvent

filterVars ==
  <<downloadStartDate, downloadEndDate, downloadStartTime, downloadEndTime,
    downloadTransport, downloadMonth>>

localVars == <<payload, blobParts, offset, hasMore, totalFetched>>

logVars == <<op, reqLog, responses, progressLog, alerts, fileSaves>>

\* The state of the export flow.
exportVars ==
  <<filterVars, downloadLoading, downloadSummary, downloadProgress, configured,
    pc, localVars, inflight, serverTotal, logVars>>

\* The state of the map side of the component.
mapVars ==
  <<mapReady, selectedDate, startTime, endTime, transport, mapStyle, loading,
    lastResult, temperaturePoints, hasInitiallyLoaded, today, mapInflight,
    effectDeps, renderPending, autoCount, awaitingAuto, mapOutcome>>

\* The state of the pages outside TemperatureDashboard.
siteVars ==
  <<session, requestPath, redirects, sitePage, activeTab, lastDecision,
    transportFilter, emailFilter, searchTerm, sortConfig, submissions,
    subLoading, subInflight, subEvent>>

\* What the export flow neither reads nor writes.
otherVars == <<mapVars, siteVars>>

\* What the map side neither reads nor writes.
notMapVars == <<exportVars, siteVars>>

vars == <<exportVars, otherVars>>

(***************************************************************************)
(* Values of the map side.                                                 *)
(***************************************************************************)
\* The dates getDefaultDates() can return during a run, in order, and the
\* dates the date input can be set to.
Days == <<"2024-06-01", "2024-06-02">>

MapDates == {Days[i] : i \in DOMAIN Days}

\* Two of the six keys of mapStyles (lines 135-170); "clean" is the default.
MapStyles == {"clean", "dark"}

\* lastResult is null. Of a stored response the model keeps whether it said
\* success and its count (what the component displays of it).
NoResult == [kind |-> "none", count |-> 0]

\* A temperature point; of its six fields the temperature is the one the
\* component computes with.
Point(t) == [probe_temperature_f |-> t]

\* The body fetchPoints sends (lines 184-196), bounds left out: the map
\* view is not part of the model.
MapPayload(date, from, to, by) ==
  [startDate |-> date, endDate |-> date, startTime |-> from, endTime |-> to,
   transport |-> by]

\* What the component holds for the map side after mount: the first render
\* and the first run of the auto-load effect, before react-leaflet is loaded
\* (MapContainer is a dynamic import without SSR, lines 10-13).
MapInit ==
  /\ mapReady = FALSE
  /\ today = Days[1]
  /\ selectedDate = today
  /\ startTime = ""
  /\ endTime = ""
  /\ transport = NoTransport
  /\ mapStyle = "clean"
  /\ loading = FALSE
  /\ lastResult = NoResult
  /\ temperaturePoints = << >>
  /\ hasInitiallyLoaded = FALSE
  /\ mapInflight = << >>
  /\ effectDeps = <<FALSE, FALSE, FALSE>>
  /\ renderPending = FALSE
  /\ autoCount = 0
  /\ awaitingAuto = FALSE
  /\ mapOutcome = "none"

(***************************************************************************)
(* Values of the site: middleware, DashboardTabs and SubmissionDashboard.  *)
(***************************************************************************)
\* The paths the middleware runs on (config.matcher, middleware.ts lines
\* 44-46).
Matcher == {"/", "/login"}

\* The paths a browser requests: the matched ones and the CSV route, which
\* the matcher leaves out.
Paths == Matcher \cup {"/api/data"}

\* The tabs of DashboardTabs.
Tabs == {"submission", "temperature"}

\* Two of the four transport buttons of SubmissionDashboard (line 290).
SubmissionTransports == {"Walking", "Cycling"}

\* What the e-mail filter and the search box can hold.
EmailTexts == {"", "ann"}

\* Two of the seven sortable columns (lines 522-580).
SortKeys == {"email", "num_records"}

\* sortConfig is null.
NoSort == [key |-> "none", direction |-> "none"]

\* The responses of /api/dashboard the model tells apart: no row, one row.
SubmissionResults == {<< >>, <<"row">>}

\* What the middleware saw and answered: the session, the path, and either
\* a redirect to a path or the request passed on.
Decision(sess, pathname, answer) ==
  [session |-> sess, pathname |-> pathname, kind |-> answer.kind,
   to |-> answer.to]

\* SubmissionDashboard has handled nothing (it is not mounted).
NoEvent == [name |-> "none", key |-> "none"]

Event(name) == [name |-> name, key |-> "none"]

\* The site when TemperatureDashboard has just mounted: a signed-in user
\* has opened the dashboard at "/" and chosen the Temperature tab, which
\* unmounted SubmissionDashboard (DashboardTabs.tsx line 62).
SiteInit ==
  /\ session = TRUE
  /\ requestPath = "none"
  /\ redirects = 0
  /\ sitePage = "/"
  /\ activeTab = "temperature"
  /\ lastDecision = Decision(TRUE, "/", [kind |-> "next", to |-> "/"])
  /\ transportFilter = NoTransport
  /\ emailFilter = ""
  /\ searchTerm = ""
  /\ sortConfig = NoSort
  /\ submissions = << >>
  /\ subLoading = FALSE
  /\ subInflight = << >>
  /\ subEvent = NoEvent

NoPayload ==
  [keys |-> "none", month |-> NoMonth, startDate |-> "", endDate |-> "",
   startTime |-> "", endTime |-> "", transport |-> NoTransport]

Init ==
  /\ downloadStartDate = ""
  /\ downloadEndDate = ""
  /\ downloadStartTime = ""
  /\ downloadEndTime = ""
  /\ downloadTransport = NoTransport
  /\ downloadMonth = NoMonth
  /\ downloadLoading = FALSE
  /\ downloadSummary = NoSummary
  /\ downloadProgress = Num(0)
  /\ configured \in BOOLEAN
  /\ pc = "idle"
  /\ payload = NoPayload
  /\ blobParts = << >>
  /\ offset = 0
  /\ hasMore = FALSE
  /\ totalFetched = 0
  /\ inflight = << >>
  /\ serverTotal = 0
  /\ op = "none"
  /\ reqLog = << >>
  /\ responses = << >>
  /\ progressLog = << >>
  /\ alerts = << >>
  /\ fileSaves = << >>
  /\ MapInit
  /\ SiteInit

(***************************************************************************)
(* The download filter inputs.                                             *)
(***************************************************************************)
\* An edit of a filter input is a new user event: the log of the invocation
\* before it is closed.
ForgetLog ==
  /\ op' = "none"
  /\ reqLog' = << >>
  /\ responses' = << >>
  /\ progressLog' = << >>
  /\ alerts' = << >>
  /\ fileSaves' = << >>
  /\ serverTotal' = 0

\* A month select that forgets to clear the date range.
MonthSelectDatesKept(month, dates) == dates

\* The month select's onChange: what it leaves in the two date fields.
MonthSelectDates(month, dates) == IF month # NoMonth THEN <<"", "">> ELSE dates

\* <select ... disabled={downloadLoading}> onChange
SelectMonth(month) ==
  /\ ~downloadLoading
  /\ downloadMonth' = month
  /\ downloadStartDate' = MonthSelectDates(month, <<downloadStartDate, downloadEndDate>>)[1]
  /\ downloadEndDate' = MonthSelectDates(month, <<downloadStartDate, downloadEndDate>>)[2]
  /\ UNCHANGED <<downloadStartTime, downloadEndTime, downloadTransport,
                 downloadLoading, downloadSummary, downloadProgress, configured, otherVars,
                 pc, localVars, inflight>>
  /\ ForgetLog

\* The date inputs' onChange: the month it leaves.
DateInputMonth(value, month) == IF value # "" THEN NoMonth ELSE month

\* Start Date <input disabled={downloadLoading || downloadMonth !== null}>
SetDownloadStartDate(value) ==
  /\ ~downloadLoading
  /\ downloadMonth = NoMonth
  /\ downloadStartDate' = value
  /\ downloadMonth' = DateInputMonth(value, downloadMonth)
  /\ UNCHANGED <<downloadEndDate, downloadStartTime, downloadEndTime,
                 downloadTransport, downloadLoading, downloadSummary,
                 downloadProgress, configured, otherVars, pc, localVars, inflight>>
  /\ ForgetLog

\* End Date <input disabled={downloadLoading || downloadMonth !== null}>
SetDownloadEndDate(value) ==
  /\ ~downloadLoading
  /\ downloadMonth = NoMonth
  /\ downloadEndDate' = value
  /\ downloadMonth' = DateInputMonth(value, downloadMonth)
  /\ UNCHANGED <<downloadStartDate, downloadStartTime, downloadEndTime,
                 downloadTransport, downloadLoading, downloadSummary,
                 downloadProgress, configured, otherVars, pc, localVars, inflight>>
  /\ ForgetLog

SetDownloadStartTime(value) ==
  /\ ~downloadLoading
  /\ downloadStartTime' = value
  /\ UNCHANGED <<downloadStartDate, downloadEndDate, downloadEndTime,
                 downloadTransport, downloadMonth, downloadLoading,
                 downloadSummary, downloadProgress, configured, otherVars, pc, localVars, inflight>>
  /\ ForgetLog

SetDownloadEndTime(value) ==
  /\ ~downloadLoading
  /\ downloadEndTime' = value
  /\ UNCHANGED <<downloadStartDate, downloadEndDate, downloadStartTime,
                 downloadTransport, downloadMonth, downloadLoading,
                 downloadSummary, downloadProgress, configured, otherVars, pc, localVars, inflight>>
  /\ ForgetLog

\* Transport buttons: setDownloadTransport(type === downloadTransport ? null : type)
ToggleDownloadTransport(type) ==
  /\ ~downloadLoading
  /\ downloadTransport' = IF type = downloadTransport THEN NoTransport ELSE type
  /\ UNCHANGED <<downloadStartDate, downloadEndDate, downloadStartTime,
                 downloadEndTime, downloadMonth, downloadLoading,
                 downloadSummary, downloadProgress, configured, otherVars, pc, localVars, inflight>>
  /\ ForgetLog

(***************************************************************************)
(* The paginated endpoint, as section 3 and section 6 of the specification  *)
(* describe it: the records that match a request's filters are an ordered  *)
(* list, and a page is the slice [offset, offset + limit) of that list.    *)
(***************************************************************************)
\* The i-th record that matches the filters.
Row(i) ==
  [date |-> "2024-06-01", time |-> "08:00", latitude |-> i, longitude |-> 0 - i,
   probe_temperature_f |-> 60 + i, transit |-> "walking"]

\* The records that match the filters, in the order the endpoint provides them.
ServerRows(total) == [i \in 1..total |-> Row(i)]

\* The success response to a request for the slice [off, off + limit) of
\* `total` matching records.
ServerPage(total, off, limit) ==
  [kind |-> "ok",
   data |-> [i \in 1..Max(0, Min(limit, total - off)) |-> Row(off + i)],
   fetchedCount |-> Max(0, Min(limit, total - off)),
   hasMore |-> off + limit < total,
   total |-> total]

\* A failure response: a non-2xx status ("http") or success false ("logic").
FailureKinds == {"http", "logic"}

FailureResponse(kind) ==
  [kind |-> kind, data |-> << >>, fetchedCount |-> 0, hasMore |-> FALSE,
   total |-> 0]

(***************************************************************************)
(* previewDownload.                                                        *)
(***************************************************************************)
\* if (!downloadMonth && (!downloadStartDate || !downloadEndDate)) is false
ValidSelection(month, startDate, endDate) ==
  ~(month = NoMonth /\ (startDate = "" \/ endDate = ""))

\* The request body of previewDownload: the three optional filters, offset 0,
\* limit 1, and either the key month or the keys startDate and endDate.
PreviewRequest ==
  [keys |-> IF downloadMonth # NoMonth THEN "month" ELSE "range",
   month |-> IF downloadMonth # NoMonth THEN downloadMonth ELSE NoMonth,
   startDate |-> IF downloadMonth # NoMonth THEN "" ELSE downloadStartDate,
   endDate |-> IF downloadMonth # NoMonth THEN "" ELSE downloadEndDate,
   startTime |-> downloadStartTime,
   endTime |-> downloadEndTime,
   transport |-> downloadTransport,
   offset |-> 0,
   limit |-> 1]

\* The DownloadSummary previewDownload builds from json.total and the filters.
\* estimatedSizeMB is kept in hundredths: Math.round(MB * 100) / 100.
BuildSummary(totalCount) ==
  [present |-> TRUE,
   count |-> totalCount,
   dateRange |-> IF downloadMonth # NoMonth
                 THEN MonthLabel(downloadMonth) \o " (all years)"
                 ELSE downloadStartDate \o " to " \o downloadEndDate,
   timeRange |-> IF downloadStartTime # "" \/ downloadEndTime # ""
                 THEN (IF downloadStartTime # "" THEN downloadStartTime ELSE "00:00")
                      \o " to " \o
                      (IF downloadEndTime # "" THEN downloadEndTime ELSE "23:59")
                 ELSE "All day",
   transport |-> IF downloadTransport # NoTransport THEN downloadTransport ELSE "All",
   estimatedSizeMB100 |-> RoundDiv(totalCount * 150 * 100, 1024 * 1024)]

\* What every invocation of one of the two handlers starts from: an empty
\* record of what it did.
FreshLog(handler, requests, raised) ==
  /\ op' = handler
  /\ reqLog' = requests
  /\ responses' = << >>
  /\ progressLog' = << >>
  /\ alerts' = raised
  /\ fileSaves' = << >>

\* Click on Preview with no valid selection: the alert and the early return.
PreviewRejected ==
  /\ ~downloadLoading
  /\ pc = "idle"
  /\ ~ValidSelection(downloadMonth, downloadStartDate, downloadEndDate)
  /\ FreshLog("preview", << >>, <<"Please select either a month OR a date range">>)
  /\ serverTotal' = 0
  /\ UNCHANGED <<filterVars, downloadLoading, downloadSummary, downloadProgress,
                 configured, otherVars, pc, localVars, inflight>>

\* A preview without the configuration check: the request is sent anyway.
PreviewNoConfigSends ==
  /\ ~downloadLoading
  /\ pc = "idle"
  /\ ValidSelection(downloadMonth, downloadStartDate, downloadEndDate)
  /\ ~configured
  /\ downloadLoading' = TRUE
  /\ downloadSummary' = NoSummary
  /\ downloadProgress' = Num(0)
  /\ inflight' = Append(inflight, PreviewRequest)
  /\ pc' = "preview"
  /\ FreshLog("preview", <<PreviewRequest>>, << >>)
  /\ serverTotal' = 0
  /\ UNCHANGED <<filterVars, configured, otherVars, localVars>>

\* Click on Preview with the configuration missing: the throw at line 278,
\* the catch and the finally run before anything is awaited.
PreviewNoConfig ==
  /\ ~downloadLoading
  /\ pc = "idle"
  /\ ValidSelection(downloadMonth, downloadStartDate, downloadEndDate)
  /\ ~configured
  /\ downloadSummary' = NoSummary
  /\ downloadProgress' = Num(0)
  /\ downloadLoading' = FALSE
  /\ FreshLog("preview", << >>, <<"Failed to preview download">>)
  /\ serverTotal' = 0
  /\ UNCHANGED <<filterVars, configured, otherVars, pc, localVars, inflight>>

\* A preview that sends its request without clearing the earlier summary.
PreviewSendKeepsSummary ==
  /\ ~downloadLoading
  /\ pc = "idle"
  /\ ValidSelection(downloadMonth, downloadStartDate, downloadEndDate)
  /\ configured
  /\ downloadLoading' = TRUE
  /\ downloadProgress' = Num(0)
  /\ inflight' = Append(inflight, PreviewRequest)
  /\ pc' = "preview"
  /\ FreshLog("preview", <<PreviewRequest>>, << >>)
  /\ serverTotal' = 0
  /\ UNCHANGED <<filterVars, downloadSummary, configured, otherVars, localVars>>

\* Click on Preview: up to the awaited fetch.
PreviewSend ==
  /\ ~downloadLoading
  /\ pc = "idle"
  /\ ValidSelection(downloadMonth, downloadStartDate, downloadEndDate)
  /\ configured
  /\ downloadLoading' = TRUE
  /\ downloadSummary' = NoSummary
  /\ downloadProgress' = Num(0)
  /\ inflight' = Append(inflight, PreviewRequest)
  /\ pc' = "preview"
  /\ FreshLog("preview", <<PreviewRequest>>, << >>)
  /\ serverTotal' = 0
  /\ UNCHANGED <<filterVars, configured, otherVars, localVars>>

\* A failure path without the finally: downloadLoading stays true.
PreviewFailedKeepsLoading(kind) ==
  /\ pc = "preview"
  /\ inflight' = Tail(inflight)
  /\ responses' = Append(responses, FailureResponse(kind))
  /\ alerts' = Append(alerts, "Failed to preview download")
  /\ pc' = "idle"
  /\ UNCHANGED <<filterVars, downloadLoading, downloadSummary, downloadProgress,
                 configured, otherVars, localVars, serverTotal, op, reqLog,
                 progressLog, fileSaves>>

\* A catch that swallows the failure: no alert.
PreviewFailedSilent(kind) ==
  /\ pc = "preview"
  /\ inflight' = Tail(inflight)
  /\ responses' = Append(responses, FailureResponse(kind))
  /\ downloadLoading' = FALSE
  /\ pc' = "idle"
  /\ UNCHANGED <<filterVars, downloadSummary, downloadProgress, configured, otherVars,
                 localVars, serverTotal, op, reqLog, progressLog, alerts,
                 fileSaves>>

\* The preview's fetch resolves with a failure: !response.ok ("http") or
\* json.success false ("logic"). Both throw; the catch alerts, the finally
\* clears downloadLoading.
PreviewFailed(kind) ==
  /\ pc = "preview"
  /\ inflight' = Tail(inflight)
  /\ responses' = Append(responses, FailureResponse(kind))
  /\ alerts' = Append(alerts, "Failed to preview download")
  /\ downloadLoading' = FALSE
  /\ pc' = "idle"
  /\ UNCHANGED <<filterVars, downloadSummary, downloadProgress, configured, otherVars,
                 localVars, serverTotal, op, reqLog, progressLog, fileSaves>>

\* The preview's fetch resolves with success: json.total || 0 is totalCount.
PreviewOk(totalCount) ==
  /\ pc = "preview"
  /\ inflight' = Tail(inflight)
  /\ responses' = Append(responses, [kind |-> "ok", data |-> << >>,
                                     fetchedCount |-> 0, hasMore |-> FALSE,
                                     total |-> totalCount])
  /\ downloadSummary' = BuildSummary(totalCount)
  /\ alerts' = IF totalCount = 0
               THEN Append(alerts, "No data found for the selected filters")
               ELSE alerts
  /\ downloadLoading' = FALSE
  /\ pc' = "idle"
  /\ UNCHANGED <<filterVars, downloadProgress, configured, otherVars, localVars,
                 serverTotal, op, reqLog, progressLog, fileSaves>>

(***************************************************************************)
(* executeDownload.                                                        *)
(***************************************************************************)
\* An executeDownload without the early return of line 356.
HasPreviewAlways(summary) == TRUE

\* The early return of line 356 is not taken.
HasPreview(summary) == summary.present

\* payload of executeDownload: the three optional filters and either the key
\* month or the keys startDate and endDate.
DownloadPayload ==
  [keys |-> IF downloadMonth # NoMonth THEN "month" ELSE "range",
   month |-> IF downloadMonth # NoMonth THEN downloadMonth ELSE NoMonth,
   startDate |-> IF downloadMonth # NoMonth THEN "" ELSE downloadStartDate,
   endDate |-> IF downloadMonth # NoMonth THEN "" ELSE downloadEndDate,
   startTime |-> downloadStartTime,
   endTime |-> downloadEndTime,
   transport |-> downloadTransport]

\* A request body whose limit is the end of the slice, not its length.
PageRequestLimitAsEnd(pl, off) ==
  [keys |-> pl.keys, month |-> pl.month, startDate |-> pl.startDate,
   endDate |-> pl.endDate, startTime |-> pl.startTime, endTime |-> pl.endTime,
   transport |-> pl.transport, offset |-> off, limit |-> off + CHUNK_SIZE]

\* { ...payload, offset, limit: CHUNK_SIZE }
PageRequest(pl, off) ==
  [keys |-> pl.keys, month |-> pl.month, startDate |-> pl.startDate,
   endDate |-> pl.endDate, startTime |-> pl.startTime, endTime |-> pl.endTime,
   transport |-> pl.transport, offset |-> off, limit |-> CHUNK_SIZE]

\* The header fragment pushed at line 389.
CsvHeader == <<"date,time,latitude,longitude,probe_temperature_f,transit\n">>

\* The line of one row (line 429): the six fields joined by commas.
RowCsv(row) ==
  row.date \o "," \o row.time \o "," \o ToString(row.latitude) \o "," \o
  ToString(row.longitude) \o "," \o ToString(row.probe_temperature_f) \o "," \o
  row.transit \o "\n"

\* An encoding loop that stops one row short.
ChunkCsvDropsLast(data) == [i \in 1..(Len(data) - 1) |-> RowCsv(data[i])]

\* chunkCsv after the loop of lines 428-430.
ChunkCsv(data) == [i \in 1..Len(data) |-> RowCsv(data[i])]

\* unshift in place of push: the fragment goes to the front of the buffer.
PushChunkFront(parts, chunkCsv) ==
  IF chunkCsv # << >> THEN <<chunkCsv>> \o parts ELSE parts

\* if (chunkCsv.length > 0) blobParts.push(chunkCsv)
PushChunk(parts, chunkCsv) ==
  IF chunkCsv # << >> THEN Append(parts, chunkCsv) ELSE parts

\* totalFetched += chunk.fetchedCount
AddFetched(fetched, chunk) == fetched + chunk.fetchedCount

\* An offset that counts pages instead of records.
NextOffsetByOne(off) == off + 1

\* offset += CHUNK_SIZE
NextOffset(off) == off + CHUNK_SIZE

\* A loop that goes on while pages come back full, whatever they report.
NextHasMoreByCount(chunk) == chunk.fetchedCount = CHUNK_SIZE

\* hasMore = chunk.hasMore
NextHasMore(chunk) == chunk.hasMore

\* An if in the place of the while: one page, then the save.
LoopContinuesNever(more) == FALSE

\* The condition of while (hasMore).
LoopContinues(more) == more

\* Math.min(Math.round((totalFetched / downloadSummary.count) * 100), 100),
\* in exact arithmetic (the double arithmetic of the code can differ from it
\* by one at a half; both are monotone in totalFetched). A count of 0 divides
\* by zero: 0 / 0 is NaN, which Math.round and Math.min pass on; n / 0 for
\* n > 0 is Infinity, which Math.min caps.
Progress(fetched, count) ==
  IF count = 0
  THEN (IF fetched = 0 THEN NaN ELSE Num(100))
  ELSE Num(Min(RoundDiv(fetched * 100, count), 100))

\* link.download (lines 458-460)
FileName ==
  IF downloadMonth # NoMonth
  THEN "temperature_data_" \o MonthLabel(downloadMonth) \o "_all_years.csv"
  ELSE "temperature_data_" \o downloadStartDate \o "_to_" \o downloadEndDate \o ".csv"

\* The locals of executeDownload exist only while it runs.
DropLocals ==
  /\ payload' = NoPayload
  /\ blobParts' = << >>
  /\ offset' = 0
  /\ hasMore' = FALSE
  /\ totalFetched' = 0

\* Click on Download CSV without a summary: the alert and the early return.
ExecRejected ==
  /\ ~downloadLoading
  /\ pc = "idle"
  /\ ~HasPreview(downloadSummary)
  /\ FreshLog("download", << >>, <<"No preview available">>)
  /\ serverTotal' = 0
  /\ UNCHANGED <<filterVars, downloadLoading, downloadSummary, downloadProgress,
                 configured, otherVars, pc, localVars, inflight>>

\* A Download button that is not disabled while an operation runs.
ExecStartWhileLoading(total) ==
  /\ HasPreview(downloadSummary)
  /\ configured
  /\ downloadProgress' = Num(0)
  /\ downloadLoading' = TRUE
  /\ payload' = DownloadPayload
  /\ blobParts' = <<CsvHeader>>
  /\ offset' = 0
  /\ hasMore' = TRUE
  /\ totalFetched' = 0
  /\ inflight' = Append(inflight, PageRequest(DownloadPayload, 0))
  /\ pc' = "page"
  /\ FreshLog("download", <<PageRequest(DownloadPayload, 0)>>, << >>)
  /\ serverTotal' = total
  /\ UNCHANGED <<filterVars, downloadSummary, configured, otherVars>>

\* Click on Download CSV with a summary: up to the first awaited fetch, or,
\* with the configuration missing, through the throw of line 385, the catch
\* and the finally (the configuration is fixed at build time, and without it
\* no preview sets a summary). `total` is the number of records that match
\* the filters.
ExecStart(total) ==
  /\ ~downloadLoading
  /\ pc = "idle"
  /\ HasPreview(downloadSummary)
  /\ downloadProgress' = Num(0)
  /\ IF ~configured
     THEN /\ downloadLoading' = FALSE
          /\ FreshLog("download", << >>, <<"Failed to download data">>)
          /\ serverTotal' = 0
          /\ UNCHANGED <<pc, localVars, inflight>>
     ELSE /\ downloadLoading' = TRUE
          /\ payload' = DownloadPayload
          /\ blobParts' = <<CsvHeader>>
          /\ offset' = 0
          /\ hasMore' = TRUE
          /\ totalFetched' = 0
          /\ inflight' = Append(inflight, PageRequest(DownloadPayload, 0))
          /\ pc' = "page"
          /\ FreshLog("download", <<PageRequest(DownloadPayload, 0)>>, << >>)
          /\ serverTotal' = total
  /\ UNCHANGED <<filterVars, downloadSummary, configured, otherVars>>

\* A failure that is answered by sending the same request again.
ExecPageFailedRetries(kind) ==
  /\ pc = "page"
  /\ inflight' = <<Head(inflight)>>
  /\ responses' = Append(responses, FailureResponse(kind))
  /\ reqLog' = Append(reqLog, Head(inflight))
  /\ UNCHANGED <<filterVars, downloadLoading, downloadSummary, downloadProgress,
                 configured, otherVars, pc, localVars, serverTotal, op, progressLog,
                 alerts, fileSaves>>

\* A failure that leaves the loop instead of throwing: what was buffered is
\* saved.
ExecPageFailedSavesPartial(kind) ==
  /\ pc = "page"
  /\ inflight' = Tail(inflight)
  /\ responses' = Append(responses, FailureResponse(kind))
  /\ fileSaves' = Append(fileSaves, [name |-> FileName, content |-> Flatten(blobParts)])
  /\ alerts' = Append(alerts, "Failed to download data")
  /\ downloadLoading' = FALSE
  /\ pc' = "idle"
  /\ DropLocals
  /\ UNCHANGED <<filterVars, downloadSummary, downloadProgress, configured, otherVars,
                 serverTotal, op, reqLog, progressLog>>

\* The awaited page fetch resolves with a failure: the throw of line 415 or
\* 422, the catch (one alert) and the finally.
ExecPageFailed(kind) ==
  /\ pc = "page"
  /\ inflight' = Tail(inflight)
  /\ responses' = Append(responses, FailureResponse(kind))
  /\ alerts' = Append(alerts, "Failed to download data")
  /\ downloadLoading' = FALSE
  /\ pc' = "idle"
  /\ DropLocals
  /\ UNCHANGED <<filterVars, downloadSummary, downloadProgress, configured, otherVars,
                 serverTotal, op, reqLog, progressLog, fileSaves>>

\* The awaited page fetch resolves with a page: lines 425-445, up to the
\* awaited timeout.
ExecPageOk ==
  /\ pc = "page"
  /\ LET chunk == ServerPage(serverTotal, Head(inflight).offset, Head(inflight).limit)
         fetched == AddFetched(totalFetched, chunk)
         progress == Progress(fetched, downloadSummary.count)
     IN /\ inflight' = Tail(inflight)
        /\ responses' = Append(responses, chunk)
        /\ blobParts' = PushChunk(blobParts, ChunkCsv(chunk.data))
        /\ totalFetched' = fetched
        /\ offset' = NextOffset(offset)
        /\ hasMore' = NextHasMore(chunk)
        /\ downloadProgress' = progress
        /\ progressLog' = Append(progressLog, progress)
  /\ pc' = "pause"
  /\ UNCHANGED <<filterVars, downloadLoading, downloadSummary, configured, otherVars,
                 payload, serverTotal, op, reqLog, alerts, fileSaves>>

\* A loop that fetches two pages at a time.
ExecNextFetchTwo ==
  /\ pc = "pause"
  /\ LoopContinues(hasMore)
  /\ inflight' = inflight \o <<PageRequest(payload, offset),
                                PageRequest(payload, NextOffset(offset))>>
  /\ reqLog' = reqLog \o <<PageRequest(payload, offset),
                            PageRequest(payload, NextOffset(offset))>>
  /\ pc' = "page"
  /\ UNCHANGED <<filterVars, downloadLoading, downloadSummary, downloadProgress,
                 configured, otherVars, localVars, serverTotal, op, responses, progressLog,
                 alerts, fileSaves>>

\* The timeout fires and the loop goes round: the next fetch.
ExecNextFetch ==
  /\ pc = "pause"
  /\ LoopContinues(hasMore)
  /\ inflight' = Append(inflight, PageRequest(payload, offset))
  /\ reqLog' = Append(reqLog, PageRequest(payload, offset))
  /\ pc' = "page"
  /\ UNCHANGED <<filterVars, downloadLoading, downloadSummary, downloadProgress,
                 configured, otherVars, localVars, serverTotal, op, responses, progressLog,
                 alerts, fileSaves>>

\* The timeout fires and the loop ends: lines 448-480 and the finally. The
\* blob is saved under FileName, the success alert is raised, the download
\* state is cleared.
ExecFinish ==
  /\ pc = "pause"
  /\ ~LoopContinues(hasMore)
  /\ fileSaves' = Append(fileSaves, [name |-> FileName, content |-> Flatten(blobParts)])
  /\ alerts' = Append(alerts, "Successfully downloaded")
  /\ downloadStartDate' = ""
  /\ downloadEndDate' = ""
  /\ downloadStartTime' = ""
  /\ downloadEndTime' = ""
  /\ downloadTransport' = NoTransport
  /\ downloadMonth' = NoMonth
  /\ downloadSummary' = NoSummary
  /\ downloadProgress' = Num(0)
  /\ downloadLoading' = FALSE
  /\ pc' = "idle"
  /\ DropLocals
  /\ UNCHANGED <<configured, otherVars, inflight, serverTotal, op, reqLog, responses,
                 progressLog>>

Next ==
  \/ \E month \in {NoMonth} \cup Months : SelectMonth(month)
  \/ \E value \in Dates : SetDownloadStartDate(value)
  \/ \E value \in Dates : SetDownloadEndDate(value)
  \/ \E value \in Times : SetDownloadStartTime(value)
  \/ \E value \in Times : SetDownloadEndTime(value)
  \/ \E type \in TransportTypes : ToggleDownloadTransport(type)
  \/ PreviewRejected
  \/ PreviewNoConfig
  \/ PreviewSend
  \/ \E kind \in FailureKinds : PreviewFailed(kind)
  \/ \E totalCount \in 0..MaxTotal : PreviewOk(totalCount)
  \/ ExecRejected
  \/ \E total \in 0..MaxTotal : ExecStart(total)
  \/ \E kind \in FailureKinds : ExecPageFailed(kind)
  \/ ExecPageOk
  \/ ExecNextFetch
  \/ ExecFinish

Spec == Init /\ [][Next]_vars

\* The preview's request gets its response; a page request gets its
\* response.
PreviewResponse ==
  \/ \E kind \in FailureKinds : PreviewFailed(kind)
  \/ \E totalCount \in 0..MaxTotal : PreviewOk(totalCount)

PageResponse ==
  \/ \E kind \in FailureKinds : ExecPageFailed(kind)
  \/ ExecPageOk

\* Every awaited fetch settles and every awaited timeout fires; the user is
\* under no obligation to click.
Fairness ==
  /\ WF_vars(PreviewResponse)
  /\ WF_vars(PageResponse)
  /\ WF_vars(ExecNextFetch)
  /\ WF_vars(ExecFinish)

\* The steps of Next without the edits of the time bounds and of the
\* transport, which no guard of the two handlers reads.
FairNext ==
  \/ \E month \in {NoMonth} \cup Months : SelectMonth(month)
  \/ \E value \in Dates : SetDownloadStartDate(value)
  \/ \E value \in Dates : SetDownloadEndDate(value)
  \/ PreviewRejected
  \/ PreviewNoConfig
  \/ PreviewSend
  \/ PreviewResponse
  \/ ExecRejected
  \/ \E total \in 0..MaxTotal : ExecStart(total)
  \/ PageResponse
  \/ ExecNextFetch
  \/ ExecFinish

FairSpec == Init /\ [][FairNext]_vars /\ Fairness

(***************************************************************************)
(* Properties of the export flow.                                          *)
(***************************************************************************)
Last(seq) == seq[Len(seq)]

CeilDiv(a, b) == (a + b - 1) \div b

\* The log is about an export session: an executeDownload that sent requests.
InSession == op = "download" /\ reqLog # << >>

AllOk == \A i \in DOMAIN responses : responses[i].kind = "ok"

AnyFailed == \E i \in DOMAIN responses : responses[i].kind # "ok"

\* The session has ended and its last response was a page.
SessionCompleted ==
  InSession /\ pc = "idle" /\ responses # << >> /\ Last(responses).kind = "ok"

\* The lines of the records 1..n of the record set, in its order.
RecordLines(n) == [i \in 1..n |-> RowCsv(ServerRows(serverTotal)[i])]

\* The lines of the pages received so far, in the order of their arrival.
ReceivedLines == Flatten([i \in 1..Len(responses) |-> ChunkCsv(responses[i].data)])

OffsetsStepByPage ==
  InSession => \A i \in DOMAIN reqLog : reqLog[i].offset = (i - 1) * CHUNK_SIZE

\* C2 as stated: a session without a failure sends exactly ceil(T / P)
\* requests, at offsets 0, P, 2P, ...
C2_Original ==
  /\ OffsetsStepByPage
  /\ SessionCompleted => Len(reqLog) = CeilDiv(serverTotal, CHUNK_SIZE)

\* C2 amended: a session without a failure sends exactly max(1, ceil(T / P))
\* requests (one request also when no record matches), at offsets 0, P, 2P,
\* ..., and never more than that while it runs.
C2_RequestCount ==
  /\ OffsetsStepByPage
  /\ InSession => Len(reqLog) <= Max(1, CeilDiv(serverTotal, CHUNK_SIZE))
  /\ SessionCompleted => Len(reqLog) = Max(1, CeilDiv(serverTotal, CHUNK_SIZE))

\* A session of three requests has completed.
C2_Witness == SessionCompleted /\ Len(reqLog) = 3

\* C3: a session in which a page request failed saves no file.
C3_NoFileAfterFailure == (op = "download" /\ AnyFailed) => fileSaves = << >>

\* A session has failed on its third page, two pages buffered.
C3_Witness ==
  /\ InSession /\ AnyFailed /\ pc = "idle"
  /\ Len(responses) = 3
  /\ responses[1].fetchedCount > 0

\* C4 as stated: every progress value a session sets is a number from 0 to
\* 100 and not smaller than the one before.
C4_ProgressMonotone ==
  \A i \in DOMAIN progressLog :
    /\ ~progressLog[i].nan
    /\ progressLog[i].v \in 0..100
    /\ i > 1 => (~progressLog[i - 1].nan /\ progressLog[i - 1].v <= progressLog[i].v)

\* The pages before the last response reported hasMore, and the last one is
\* followed by a request exactly if it reports hasMore.
C5_Inv ==
  InSession =>
    /\ Len(reqLog) \in {Len(responses), Len(responses) + 1}
    /\ \A i \in 1..(Len(responses) - 1) :
         responses[i].kind = "ok" /\ responses[i].hasMore
    /\ (responses # << >> /\ Last(responses).kind = "ok" /\ ~Last(responses).hasMore)
         => Len(reqLog) = Len(responses)
    /\ (responses # << >> /\ Last(responses).kind = "ok" /\ Last(responses).hasMore)
         => \/ pc = "pause" /\ Len(reqLog) = Len(responses)
            \/ pc = "page" /\ Len(reqLog) = Len(responses) + 1

\* The step that ends the pause after a page with hasMore sends a request; the
\* step that ends it after a page without hasMore sends none.
C5_Step ==
  (pc = "pause" /\ pc' # "pause") =>
    IF Last(responses).hasMore
    THEN pc' = "page" /\ Len(reqLog') = Len(reqLog) + 1
    ELSE pc' = "idle" /\ reqLog' = reqLog

\* C5: a session stops paging exactly when a page reports hasMore false: no
\* request follows such a page, and a request follows every page that
\* reports hasMore true.
C5_StopsExactlyAtNoMore == []C5_Inv /\ [][C5_Step]_vars

\* A session has gone on after a page with hasMore and stopped at one without.
C5_Witness ==
  /\ SessionCompleted
  /\ Len(responses) >= 2
  /\ responses[1].hasMore
  /\ ~Last(responses).hasMore

\* C6: at most one request is in flight, and when a page request is in
\* flight every request before it has been answered and its page encoded,
\* appended to the buffer and counted.
C6_OneInFlight ==
  /\ Len(inflight) <= 1
  /\ pc \in {"idle", "pause"} => inflight = << >>
  /\ pc = "page" =>
       /\ inflight = <<Last(reqLog)>>
       /\ Len(responses) = Len(reqLog) - 1
       /\ AllOk
       /\ Flatten(blobParts) = CsvHeader \o ReceivedLines
       /\ totalFetched = SumFetched(responses)

\* The third request of a session is in flight.
C6_Witness == InSession /\ pc = "page" /\ Len(reqLog) = 3 /\ totalFetched > 0

\* C7: a file is saved at most once per invocation; it is saved only by a
\* session that has ended on a page with hasMore false, with that page in the
\* file; and every session that ends on such a page has saved one.
C7_SaveExactlyOnce ==
  /\ Len(fileSaves) <= 1
  /\ fileSaves # << >> =>
       /\ SessionCompleted
       /\ AllOk
       /\ ~Last(responses).hasMore
       /\ fileSaves[1].content = CsvHeader \o ReceivedLines
  /\ pc # "idle" => fileSaves = << >>
  /\ op # "download" => fileSaves = << >>
  /\ (SessionCompleted /\ ~Last(responses).hasMore) => Len(fileSaves) = 1

\* A session of three pages has saved its file.
C7_Witness ==
  SessionCompleted /\ Len(fileSaves) = 1 /\ Len(responses) = 3

\* C8: executeDownload has a request out, or pages in hand, only with a
\* summary present; and a preview that succeeds, with a total of zero too,
\* leaves a summary of that total and no failure alert.
C8_DownloadOnlyWhenReady ==
  /\ pc \in {"page", "pause"} => downloadSummary.present
  /\ (op = "download" /\ reqLog # << >> /\ pc # "idle") => downloadSummary.present
  /\ (op = "preview" /\ pc = "idle" /\ responses # << >> /\ responses[1].kind = "ok") =>
       /\ downloadSummary.present
       /\ downloadSummary.count = responses[1].total
       /\ \A i \in DOMAIN alerts : alerts[i] # "Failed to preview download"

\* A download is paging on the strength of a preview that counted no record.
C8_Witness ==
  /\ InSession /\ pc = "page"
  /\ downloadSummary.present /\ downloadSummary.count = 0

CarriesMonth(r) == r.keys = "month" /\ r.month # NoMonth

CarriesRange(r) == r.keys = "range" /\ r.startDate # "" /\ r.endDate # ""

\* C9 as stated: every request sent carries a month or a date range with
\* both dates, and not both.
C9_ExactlyOneSelector ==
  \A i \in DOMAIN reqLog : CarriesMonth(reqLog[i]) # CarriesRange(reqLog[i])

\* C10: the month is never set while one of the two dates is.
C10_MonthExcludesDates ==
  ~(downloadMonth # NoMonth /\ (downloadStartDate # "" \/ downloadEndDate # ""))

\* A month is selected, the dates are empty, and the summary on display is
\* that of a date range: the month was selected over a range.
C10_Witness ==
  /\ downloadMonth # NoMonth
  /\ downloadStartDate = "" /\ downloadEndDate = ""
  /\ downloadSummary.present
  /\ \A m \in Months : downloadSummary.dateRange # MonthLabel(m) \o " (all years)"

\* The filters a request carries, and its limit: all of it but the offset.
FiltersOf(r) ==
  [keys |-> r.keys, month |-> r.month, startDate |-> r.startDate,
   endDate |-> r.endDate, startTime |-> r.startTime, endTime |-> r.endTime,
   transport |-> r.transport]

\* C11: the page requests of a session all carry the filters of the first
\* one and the page size as limit; while the session runs its payload is the
\* one it started with, and no filter input changes.
C11_Inv ==
  InSession =>
    /\ \A i \in DOMAIN reqLog :
         /\ FiltersOf(reqLog[i]) = FiltersOf(reqLog[1])
         /\ reqLog[i].limit = CHUNK_SIZE
    /\ pc \in {"page", "pause"} => payload = FiltersOf(reqLog[1])

C11_Step ==
  (pc \in {"page", "pause"} /\ pc' \in {"page", "pause"}) =>
    /\ payload' = payload
    /\ filterVars' = filterVars

C11_SameFiltersEveryPage == []C11_Inv /\ [][C11_Step]_vars

\* The third request of a session that filters by time and by transport.
C11_Witness ==
  /\ InSession /\ Len(reqLog) = 3
  /\ reqLog[3].startTime # "" /\ reqLog[3].transport # NoTransport

\* C12: a failed page response is the last event of its session: nothing is
\* in flight, no request follows it, and the summary is still there, so that
\* executeDownload can start again without a preview. The download started
\* from that state is a new session: one request, at offset 0, with a buffer
\* that holds the header only and a running total of 0.
C12_Inv ==
  (op = "download" /\ AnyFailed) =>
    /\ pc = "idle" /\ ~downloadLoading
    /\ inflight = << >>
    /\ Len(reqLog) = Len(responses)
    /\ \A i \in 1..(Len(responses) - 1) : responses[i].kind = "ok"
    /\ HasPreview(downloadSummary)
    /\ ENABLED (\E total \in 0..MaxTotal : ExecStart(total))

C12_Step ==
  (op = "download" /\ AnyFailed /\ op' = "download" /\ responses' = << >>) =>
    /\ reqLog' = <<PageRequest(DownloadPayload, 0)>>
    /\ inflight' = reqLog'
    /\ offset' = 0
    /\ totalFetched' = 0
    /\ blobParts' = <<CsvHeader>>
    /\ progressLog' = << >>

C12_FailureEndsSession == []C12_Inv /\ [][C12_Step]_vars

\* A session that failed on its second page, after one page was buffered.
C12_Witness ==
  /\ op = "download" /\ pc = "idle"
  /\ Len(responses) = 2
  /\ responses[1].kind = "ok" /\ responses[2].kind # "ok"
  /\ HasPreview(downloadSummary)

\* The alerts that report a failure; the other two report an empty result
\* and a finished download.
ErrorAlerts ==
  {"Please select either a month OR a date range", "No preview available",
   "Failed to preview download", "Failed to download data"}

\* C13: with the backend URL or key missing no request is ever sent and no
\* file is saved; every click on Preview or Download ends at once with one
\* failure alert, and leaves nothing loading and no summary.
C13_NoRequestWithoutConfig ==
  ~configured =>
    /\ reqLog = << >> /\ inflight = << >>
    /\ fileSaves = << >>
    /\ pc = "idle" /\ ~downloadLoading
    /\ ~HasPreview(downloadSummary)
    /\ op # "none" => (Len(alerts) = 1 /\ alerts[1] \in ErrorAlerts)

\* A preview of a valid selection that stopped at the configuration check.
C13_Witness ==
  /\ ~configured
  /\ op = "preview"
  /\ ValidSelection(downloadMonth, downloadStartDate, downloadEndDate)
  /\ alerts = <<"Failed to preview download">>

\* The invocation failed: it ended without sending anything (selection
\* rejected, preview missing, configuration missing) or a response of it was
\* a failure.
InvocationFailed == op # "none" /\ (reqLog = << >> \/ AnyFailed)

ErrorAlertCount == Cardinality({i \in DOMAIN alerts : alerts[i] \in ErrorAlerts})

\* C14: an invocation of previewDownload or executeDownload that failed has
\* raised exactly one failure alert and has ended, with nothing in flight and
\* no request after the failed response; one that did not fail has raised
\* none.
C14_OneAlertPerFailure ==
  /\ InvocationFailed =>
       /\ ErrorAlertCount = 1 /\ Len(alerts) = 1
       /\ pc = "idle" /\ ~downloadLoading /\ inflight = << >>
       /\ Len(reqLog) = Len(responses)
  /\ (op # "none" /\ ~InvocationFailed) => ErrorAlertCount = 0

\* A preview whose response said success: false.
C14_Witness ==
  /\ op = "preview"
  /\ responses = <<FailureResponse("logic")>>
  /\ alerts = <<"Failed to preview download">>

\* C15: once a session has ended, by its last page or by a failed one,
\* nothing of it remains: no buffered fragment, no running total, no offset,
\* and the progress value is 0 again. Stated for the sessions whose estimate
\* was the true total (a completed session has cleared its summary).
C15_SessionStateDiscarded ==
  (/\ InSession /\ pc = "idle"
   /\ SessionCompleted \/ downloadSummary.count = serverTotal) =>
    /\ blobParts = << >>
    /\ totalFetched = 0
    /\ offset = 0
    /\ downloadProgress = Num(0)

\* The fragments of the pages received so far, one per page, in the order of
\* their arrival; the fragment of a page without rows is empty.
PageFragments == [i \in 1..Len(responses) |-> ChunkCsv(responses[i].data)]

NonEmptyFragment(f) == f # << >>

\* C16 as stated: while a session runs the buffer is the header followed by
\* one fragment for every page received.
C16_Original ==
  (InSession /\ pc \in {"page", "pause"}) =>
    blobParts = <<CsvHeader>> \o PageFragments

\* C16: while a session runs the buffer is the header, at position 0 and
\* nowhere else, followed by one fragment for every page received that had
\* rows, in the order received.
C16_HeaderThenPages ==
  (InSession /\ pc \in {"page", "pause"}) =>
    /\ blobParts # << >>
    /\ Head(blobParts) = CsvHeader
    /\ Tail(blobParts) = SelectSeq(PageFragments, NonEmptyFragment)
    /\ \A i \in 2..Len(blobParts) : blobParts[i] # CsvHeader

\* Three pages with rows have been received.
C16_Witness ==
  /\ InSession /\ pc = "pause"
  /\ Len(responses) = 3
  /\ Len(blobParts) = 4

\* C17: when paging ends in a session whose estimate was the true total T,
\* the running total is T and the last progress value is 100.
C17_EndsAtTotalAndFull ==
  (InSession /\ pc = "pause" /\ ~hasMore /\ downloadSummary.count = serverTotal) =>
    /\ totalFetched = serverTotal
    /\ downloadProgress = Num(100)
    /\ progressLog # << >> /\ Last(progressLog) = Num(100)

\* C18: downloadLoading is true exactly while one invocation of
\* previewDownload or executeDownload is between its start and its end; at
\* most one request is in flight; while it is true no invocation starts (the
\* log of the running one is only extended), a running preview is the only
\* writer of the summary and a running download the only writer of the
\* progress value.
C18_Inv ==
  /\ downloadLoading <=> pc # "idle"
  /\ Len(inflight) <= 1
  /\ pc = "preview" => (op = "preview" /\ Len(reqLog) = 1 /\ inflight = reqLog)
  /\ pc \in {"page", "pause"} => op = "download"

C18_Step ==
  downloadLoading =>
    /\ op' = op
    /\ Len(reqLog') >= Len(reqLog)
    /\ SubSeq(reqLog', 1, Len(reqLog)) = reqLog
    /\ Len(responses') >= Len(responses)
    /\ pc = "preview" => downloadProgress' = downloadProgress
    /\ (pc \in {"page", "pause"} /\ pc' # "idle") => downloadSummary' = downloadSummary

C18_OneOperationAtATime == []C18_Inv /\ [][C18_Step]_vars

\* A download waits between two pages; its summary came from a preview that
\* has ended.
C18_Witness ==
  /\ downloadLoading
  /\ pc = "pause" /\ hasMore
  /\ op = "download"
  /\ HasPreview(downloadSummary)

\* What the summary of a preview says about the filters of request r: the
\* three descriptions of lines 323-328, read off the request.
DescribedBy(summary, r) ==
  /\ summary.dateRange = (IF r.keys = "month"
                          THEN MonthLabel(r.month) \o " (all years)"
                          ELSE r.startDate \o " to " \o r.endDate)
  /\ summary.timeRange = (IF r.startTime # "" \/ r.endTime # ""
                          THEN (IF r.startTime # "" THEN r.startTime ELSE "00:00")
                               \o " to " \o
                               (IF r.endTime # "" THEN r.endTime ELSE "23:59")
                          ELSE "All day")
  /\ summary.transport = (IF r.transport # NoTransport THEN r.transport ELSE "All")

\* C19: every page request of a session carries the filters that the summary
\* on screen, built by the last successful preview, describes. Stated for
\* the requests that carry exactly one of month and date range.
C19_SessionUsesPreviewedFilters ==
  (InSession /\ HasPreview(downloadSummary)) =>
    \A i \in DOMAIN reqLog :
      (CarriesMonth(reqLog[i]) # CarriesRange(reqLog[i])) =>
        DescribedBy(downloadSummary, reqLog[i])

\* The last invocation was a preview that passed the selection check and
\* then failed: at the configuration check or by its response.
PreviewFailedInTry ==
  /\ op = "preview" /\ pc = "idle"
  /\ AnyFailed \/ alerts = <<"Failed to preview download">>

\* C20: while a preview's request is in flight there is no summary, and a
\* preview that failed after the selection check has left none. A summary
\* appears only when a preview's response is a success, and from a state
\* without summary the only request that can be sent is a preview's.
C20_Inv ==
  /\ pc = "preview" => ~HasPreview(downloadSummary)
  /\ PreviewFailedInTry => ~HasPreview(downloadSummary)

C20_Step ==
  /\ (~HasPreview(downloadSummary) /\ HasPreview(downloadSummary')) =>
       /\ pc = "preview" /\ pc' = "idle"
       /\ responses' # << >> /\ Last(responses').kind = "ok"
  /\ ~HasPreview(downloadSummary) => (inflight' = << >> \/ pc' = "preview")

C20_FailedPreviewLeavesNoSummary == []C20_Inv /\ [][C20_Step]_vars

\* A preview of a date range was answered with a non-2xx status.
C20_Witness ==
  /\ PreviewFailedInTry
  /\ responses = <<FailureResponse("http")>>
  /\ reqLog[1].keys = "range"
  /\ ~HasPreview(downloadSummary)

\* C21: whenever downloadLoading is true it becomes false again, given that
\* every request is answered and every timeout fires.
C21_LoadingEnds == downloadLoading ~> ~downloadLoading

\* A download that is three requests into its session.
C21_Witness ==
  /\ downloadLoading
  /\ pc = "page"
  /\ Len(reqLog) = 3

(***************************************************************************)
(* The map side of TemperatureDashboard: the map filters, fetchPoints, the *)
(* auto-load effect and resetToDefaults.                                   *)
(*                                                                         *)
(* A handler that sets state makes the component render again; after a     *)
(* render React runs the auto-load effect if one of its dependencies has   *)
(* changed since the effect last ran. Rendering and effects come before    *)
(* the next event, so every event waits while renderPending is true.       *)
(* Setting mapRef.current renders nothing.                                 *)
(***************************************************************************)
\* The temperatures the endpoint's points can have: the band limits of
\* getTemperatureColor and their neighbours.
Temperatures == {31, 32, 49, 50, 69, 70, 79, 80, 89, 90, 91}

\* json.data of a successful response: no point, or one.
PointData == {<< >>} \cup {<<Point(t)>> : t \in Temperatures}

\* The ways a call of get-temperature-points fails: invoke returns an error
\* (line 203), the function answers success: false (line 213), the call
\* throws (line 234).
MapFailureKinds == {"error", "logic", "throw"}

\* function getTemperatureColor(temp)
GetTemperatureColor(temp) ==
  IF temp < 32 THEN "#0066cc"
  ELSE IF temp < 50 THEN "#00cccc"
  ELSE IF temp < 70 THEN "#00cc00"
  ELSE IF temp < 80 THEN "#cccc00"
  ELSE IF temp < 90 THEN "#ff8800"
  ELSE "#ff0000"

\* The temperature scale legend (lines 547-576): the label shown next to
\* each colour, read as the set of temperatures it names.
LegendShows(colour, temp) ==
  CASE colour = "#0066cc" -> temp < 32
    [] colour = "#00cccc" -> 32 <= temp /\ temp <= 50
    [] colour = "#00cc00" -> 50 <= temp /\ temp <= 70
    [] colour = "#cccc00" -> 70 <= temp /\ temp <= 80
    [] colour = "#ff8800" -> 80 <= temp /\ temp <= 90
    [] colour = "#ff0000" -> temp > 90
    [] OTHER -> FALSE

\* The dependency array of the auto-load effect (line 497).
Deps == <<mapReady, hasInitiallyLoaded, loading>>

\* The filters as resetToDefaults sets them, for the date `day`.
DefaultPayload(day) == MapPayload(day, "", "", NoTransport)

CurrentPayload == MapPayload(selectedDate, startTime, endTime, transport)

mapFilterVars == <<selectedDate, startTime, endTime, transport, mapStyle>>

\* MapRefConnector's effect: mapRef.current = map (lines 35-37, 595).
MapBecomesReady ==
  /\ ~renderPending
  /\ ~mapReady
  /\ mapReady' = TRUE
  /\ UNCHANGED <<mapFilterVars, loading, lastResult, temperaturePoints,
                 hasInitiallyLoaded, today, mapInflight, effectDeps,
                 renderPending, autoCount, awaitingAuto, mapOutcome,
                 notMapVars>>

\* The date changes: getDefaultDates() returns the next day from now on.
Midnight ==
  /\ ~renderPending
  /\ \E i \in DOMAIN Days : today = Days[i] /\ i < Len(Days) /\ today' = Days[i + 1]
  /\ UNCHANGED <<mapReady, mapFilterVars, loading, lastResult, temperaturePoints,
                 hasInitiallyLoaded, mapInflight, effectDeps, renderPending,
                 autoCount, awaitingAuto, mapOutcome, notMapVars>>

\* onChange of the date input (line 618).
SetSelectedDate(value) ==
  /\ ~renderPending
  /\ value # selectedDate
  /\ selectedDate' = value
  /\ renderPending' = TRUE
  /\ mapOutcome' = "none"
  /\ awaitingAuto' = FALSE
  /\ UNCHANGED <<mapReady, startTime, endTime, transport, mapStyle, loading,
                 lastResult, temperaturePoints, hasInitiallyLoaded, today,
                 mapInflight, effectDeps, autoCount, notMapVars>>

\* onChange of the start time input (line 638).
SetStartTime(value) ==
  /\ ~renderPending
  /\ value # startTime
  /\ startTime' = value
  /\ renderPending' = TRUE
  /\ mapOutcome' = "none"
  /\ awaitingAuto' = FALSE
  /\ UNCHANGED <<mapReady, selectedDate, endTime, transport, mapStyle, loading,
                 lastResult, temperaturePoints, hasInitiallyLoaded, today,
                 mapInflight, effectDeps, autoCount, notMapVars>>

\* onChange of the end time input (line 648).
SetEndTime(value) ==
  /\ ~renderPending
  /\ value # endTime
  /\ endTime' = value
  /\ renderPending' = TRUE
  /\ mapOutcome' = "none"
  /\ awaitingAuto' = FALSE
  /\ UNCHANGED <<mapReady, selectedDate, startTime, transport, mapStyle, loading,
                 lastResult, temperaturePoints, hasInitiallyLoaded, today,
                 mapInflight, effectDeps, autoCount, notMapVars>>

\* Click on a transport button (line 661).
ToggleTransport(type) ==
  /\ ~renderPending
  /\ transport' = IF type = transport THEN NoTransport ELSE type
  /\ renderPending' = TRUE
  /\ mapOutcome' = "none"
  /\ awaitingAuto' = FALSE
  /\ UNCHANGED <<mapReady, selectedDate, startTime, endTime, mapStyle, loading,
                 lastResult, temperaturePoints, hasInitiallyLoaded, today,
                 mapInflight, effectDeps, autoCount, notMapVars>>

\* Click on a map style button (line 535).
SetMapStyle(key) ==
  /\ ~renderPending
  /\ key # mapStyle
  /\ mapStyle' = key
  /\ renderPending' = TRUE
  /\ mapOutcome' = "none"
  /\ awaitingAuto' = FALSE
  /\ UNCHANGED <<mapReady, selectedDate, startTime, endTime, transport, loading,
                 lastResult, temperaturePoints, hasInitiallyLoaded, today,
                 mapInflight, effectDeps, autoCount, notMapVars>>

\* Click on Apply Filters, fetchPoints(false), with mapRef.current unset: the
\* alert "Map not ready" and the return of lines 174-179.
ApplyNotReady ==
  /\ ~renderPending
  /\ ~loading
  /\ ~mapReady
  /\ mapOutcome' = "notready"
  /\ UNCHANGED <<mapReady, mapFilterVars, loading, lastResult, temperaturePoints,
                 hasInitiallyLoaded, today, mapInflight, effectDeps,
                 renderPending, autoCount, awaitingAuto, notMapVars>>

\* Click on Apply Filters, fetchPoints(false): up to the awaited invoke. The
\* button is disabled while loading (line 683).
ApplyFilters ==
  /\ ~renderPending
  /\ ~loading
  /\ mapReady
  /\ loading' = TRUE
  /\ mapInflight' = Append(mapInflight, [isInitialLoad |-> FALSE, body |-> CurrentPayload])
  /\ renderPending' = TRUE
  /\ mapOutcome' = "none"
  /\ UNCHANGED <<mapReady, mapFilterVars, lastResult, temperaturePoints,
                 hasInitiallyLoaded, today, effectDeps, autoCount, awaitingAuto,
                 notMapVars>>

\* Click on Clear Map (lines 502-505); the button is rendered while there
\* are points (line 699).
ClearPoints ==
  /\ ~renderPending
  /\ temperaturePoints # << >>
  /\ temperaturePoints' = << >>
  /\ lastResult' = NoResult
  /\ renderPending' = TRUE
  /\ mapOutcome' = "none"
  /\ UNCHANGED <<mapReady, mapFilterVars, loading, hasInitiallyLoaded, today,
                 mapInflight, effectDeps, autoCount, awaitingAuto, notMapVars>>

\* Click on Reset Defaults (lines 508-518); the button is never disabled.
ResetToDefaults ==
  /\ ~renderPending
  /\ selectedDate' = today
  /\ startTime' = ""
  /\ endTime' = ""
  /\ transport' = NoTransport
  /\ mapStyle' = "clean"
  /\ temperaturePoints' = << >>
  /\ lastResult' = NoResult
  /\ hasInitiallyLoaded' = FALSE
  /\ renderPending' = TRUE
  /\ autoCount' = 0
  /\ awaitingAuto' = TRUE
  /\ mapOutcome' = "none"
  /\ UNCHANGED <<mapReady, loading, today, mapInflight, effectDeps, notMapVars>>

\* The render after a state change and the auto-load effect (lines 491-497):
\* the effect runs if a dependency differs from what it last saw, and calls
\* fetchPoints(true) if the map is ready, nothing was loaded and nothing is
\* loading; fetchPoints(true) runs up to its awaited invoke and its
\* setLoading(true) makes the component render once more.
RenderEffects ==
  /\ renderPending
  /\ effectDeps' = Deps
  /\ IF Deps # effectDeps /\ mapReady /\ ~hasInitiallyLoaded /\ ~loading
     THEN /\ loading' = TRUE
          /\ mapInflight' = Append(mapInflight, [isInitialLoad |-> TRUE, body |-> CurrentPayload])
          /\ autoCount' = autoCount + 1
          /\ awaitingAuto' = (awaitingAuto /\ CurrentPayload # DefaultPayload(today))
          /\ UNCHANGED renderPending
     ELSE /\ renderPending' = FALSE
          /\ UNCHANGED <<loading, mapInflight, autoCount, awaitingAuto>>
  /\ UNCHANGED <<mapReady, mapFilterVars, lastResult, temperaturePoints,
                 hasInitiallyLoaded, today, mapOutcome, notMapVars>>

\* A failure path that also empties the map.
MapFetchFailedClears(kind) ==
  /\ ~renderPending
  /\ mapInflight # << >>
  /\ autoCount < MaxAutoLoads
  /\ mapInflight' = Tail(mapInflight)
  /\ lastResult' = IF kind = "logic" THEN [kind |-> "logic", count |-> 0] ELSE lastResult
  /\ temperaturePoints' = << >>
  /\ loading' = FALSE
  /\ renderPending' = TRUE
  /\ mapOutcome' = kind
  /\ UNCHANGED <<mapReady, mapFilterVars, hasInitiallyLoaded, today, effectDeps,
                 autoCount, awaitingAuto, notMapVars>>

\* The awaited invoke ends in a failure: the return of line 208 or 218, or
\* the catch of line 234; then the finally. A response with success: false
\* has been stored as lastResult (line 211) before the return.
MapFetchFailed(kind) ==
  /\ ~renderPending
  /\ mapInflight # << >>
  /\ autoCount < MaxAutoLoads
  /\ mapInflight' = Tail(mapInflight)
  /\ lastResult' = IF kind = "logic" THEN [kind |-> "logic", count |-> 0] ELSE lastResult
  /\ loading' = FALSE
  /\ renderPending' = TRUE
  /\ mapOutcome' = kind
  /\ UNCHANGED <<mapReady, mapFilterVars, temperaturePoints, hasInitiallyLoaded,
                 today, effectDeps, autoCount, awaitingAuto, notMapVars>>

\* The awaited invoke ends with success: true and `data` (lines 211-232),
\* then the finally.
MapFetchOk(data) ==
  /\ ~renderPending
  /\ mapInflight # << >>
  /\ mapInflight' = Tail(mapInflight)
  /\ lastResult' = [kind |-> "ok", count |-> Len(data)]
  /\ temperaturePoints' = data
  /\ hasInitiallyLoaded' = (hasInitiallyLoaded \/ Head(mapInflight).isInitialLoad)
  /\ loading' = FALSE
  /\ renderPending' = TRUE
  /\ mapOutcome' = "ok"
  /\ UNCHANGED <<mapReady, mapFilterVars, today, effectDeps, autoCount,
                 awaitingAuto, notMapVars>>

MapNext ==
  \/ MapBecomesReady
  \/ Midnight
  \/ \E value \in MapDates : SetSelectedDate(value)
  \/ \E value \in Times : SetStartTime(value)
  \/ \E value \in Times : SetEndTime(value)
  \/ \E type \in TransportTypes : ToggleTransport(type)
  \/ \E key \in MapStyles : SetMapStyle(key)
  \/ ApplyNotReady
  \/ ApplyFilters
  \/ ClearPoints
  \/ ResetToDefaults
  \/ RenderEffects
  \/ \E kind \in MapFailureKinds : MapFetchFailed(kind)
  \/ \E data \in PointData : MapFetchOk(data)

\* The map side runs whatever the export configuration is; it is taken as
\* present.
MapInitConfigured == Init /\ configured

MapSpec == MapInitConfigured /\ [][MapNext]_vars

(***************************************************************************)
(* Properties of the map side.                                             *)
(***************************************************************************)
\* C22: between mount and the first resetToDefaults, and between two
\* resets, the auto-load effect calls fetchPoints(true) at most once.
C22_OneAutoLoad == autoCount <= 1

\* The map filters have their default values.
MapFiltersAtDefault ==
  /\ selectedDate = today
  /\ startTime = "" /\ endTime = ""
  /\ transport = NoTransport
  /\ mapStyle = "clean"

\* C23: after resetToDefaults, until an automatic fetch with the default
\* filters has been issued, there is something that will issue one: a render
\* whose effect is still to run, or a fetch in flight whose end makes the
\* effect run; the component is never at rest with that fetch still owed.
\* Stated for the states in which the effect has seen the map ready.
C23_ResetLoadsDefaults ==
  (awaitingAuto /\ mapReady /\ ~renderPending /\ effectDeps = Deps) => loading

\* C24: a step in which a call of fetchPoints ends in a failure (the awaited
\* invoke failed, or the map was not ready) leaves the points on the map and
\* hasInitiallyLoaded as they were, and ends with loading false.
C24_Step ==
  LET invokeFailed == /\ Len(mapInflight') < Len(mapInflight)
                      /\ mapOutcome' \in MapFailureKinds
      mapNotReady == mapOutcome' = "notready"
  IN  (invokeFailed \/ mapNotReady) =>
        /\ temperaturePoints' = temperaturePoints
        /\ hasInitiallyLoaded' = hasInitiallyLoaded
        /\ loading' = FALSE

C24_FailureKeepsPoints == [][C24_Step]_vars

\* A call has just failed with success: false, with points on the map from
\* an earlier call.
C24_Witness ==
  /\ mapOutcome = "logic"
  /\ renderPending /\ ~loading
  /\ temperaturePoints # << >>
  /\ lastResult.kind = "logic"

\* C29: the colour of every point on the map is the colour whose legend
\* label names the point's temperature.
C29_ColourMatchesLegend ==
  \A i \in DOMAIN temperaturePoints :
    LegendShows(GetTemperatureColor(temperaturePoints[i].probe_temperature_f),
                temperaturePoints[i].probe_temperature_f)

(***************************************************************************)
(* The site: middleware.ts, DashboardTabs.tsx and SubmissionDashboard.tsx. *)
(***************************************************************************)
\* middleware as it would be without the second test (lines 37-39): a
\* signed-in request for "/login" is passed on.
MiddlewareKeepsLogin(sess, pathname) ==
  IF ~sess /\ pathname # "/login"
  THEN [kind |-> "redirect", to |-> "/login"]
  ELSE [kind |-> "next", to |-> pathname]

\* middleware as it would be if the first test (line 32) left out the
\* comparison of the path: every request without a session is redirected
\* to "/login", the one for "/login" included.
MiddlewareRedirectsLogin(sess, pathname) ==
  IF ~sess
  THEN [kind |-> "redirect", to |-> "/login"]
  ELSE IF pathname = "/login"
       THEN [kind |-> "redirect", to |-> "/"]
       ELSE [kind |-> "next", to |-> pathname]

\* middleware (lines 27-41): the answer to a request for pathname when the
\* cookies hold a session (sess) or not.
Middleware(sess, pathname) ==
  IF ~sess /\ pathname # "/login"
  THEN [kind |-> "redirect", to |-> "/login"]
  ELSE IF sess /\ pathname = "/login"
       THEN [kind |-> "redirect", to |-> "/"]
       ELSE [kind |-> "next", to |-> pathname]

\* The query string fetchData builds (lines 65-82): a parameter for each
\* filter that is set.
QueryOf(byTransport, byEmail) ==
  (IF byTransport # NoTransport
   THEN {<<"transportFilter", byTransport>>} ELSE {})
  \cup (IF byEmail # "" THEN {<<"emailSearch", byEmail>>} ELSE {})

\* handleSort as it would be if a click on the current key only flipped
\* the direction.
NextSortFlips(current, key) ==
  IF current.key = key
  THEN [key |-> key,
        direction |-> IF current.direction = "asc" THEN "desc" ELSE "asc"]
  ELSE [key |-> key, direction |-> "asc"]

\* handleSort (lines 167-176): the sort state after a click on column key.
NextSort(current, key) ==
  IF current.key = key
  THEN IF current.direction = "asc"
       THEN [key |-> key, direction |-> "desc"]
       ELSE NoSort
  ELSE [key |-> key, direction |-> "asc"]

subFilterVars == <<transportFilter, emailFilter, searchTerm, sortConfig>>

navVars == <<session, requestPath, redirects, sitePage, lastDecision>>

\* SubmissionDashboard is on the screen.
SubmissionShown == sitePage = "/" /\ activeTab = "submission"

\* SubmissionDashboard mounts: its state is the initial one (lines 35-60) and
\* the mount effect calls fetchData (lines 98-101), which sets loading and
\* sends the request without parameters.
SubmissionMounts ==
  /\ transportFilter' = NoTransport
  /\ emailFilter' = ""
  /\ searchTerm' = ""
  /\ sortConfig' = NoSort
  /\ submissions' = << >>
  /\ subLoading' = TRUE
  /\ subInflight' = <<QueryOf(NoTransport, "")>>
  /\ subEvent' = Event("mount")

\* SubmissionDashboard is not (or no longer) mounted: its state is gone, and
\* a response that arrives later changes nothing.
SubmissionUnmounted ==
  /\ transportFilter' = NoTransport
  /\ emailFilter' = ""
  /\ searchTerm' = ""
  /\ sortConfig' = NoSort
  /\ submissions' = << >>
  /\ subLoading' = FALSE
  /\ subInflight' = << >>
  /\ subEvent' = NoEvent

\* The user opens a path (address bar or link).
Navigate(pathname) ==
  /\ requestPath = "none"
  /\ requestPath' = pathname
  /\ redirects' = 0
  /\ UNCHANGED <<session, sitePage, lastDecision, activeTab, subFilterVars,
                 submissions, subLoading, subInflight, subEvent, exportVars,
                 mapVars>>

\* The middleware answers the request under way with a redirect and the
\* browser follows it.
FollowRedirect ==
  /\ requestPath \in Matcher
  /\ redirects < MaxRedirects
  /\ LET answer == Middleware(session, requestPath)
     IN /\ answer.kind = "redirect"
        /\ lastDecision' = Decision(session, requestPath, answer)
        /\ requestPath' = answer.to
        /\ redirects' = redirects + 1
  /\ UNCHANGED <<session, sitePage, activeTab, subFilterVars, submissions,
                 subLoading, subInflight, subEvent, exportVars, mapVars>>

\* The request under way is served: the middleware passes it on, or the
\* path is not one the middleware runs on. The page replaces the one on the
\* screen; the page at "/" is the dashboard (middleware.ts line 36), whose
\* DashboardTabs mounts with the Submission tab (DashboardTabs.tsx line 10).
ServePage ==
  /\ requestPath # "none"
  /\ IF requestPath \in Matcher
     THEN LET answer == Middleware(session, requestPath)
          IN /\ answer.kind = "next"
             /\ lastDecision' = Decision(session, requestPath, answer)
     ELSE UNCHANGED lastDecision
  /\ sitePage' = requestPath
  /\ requestPath' = "none"
  /\ activeTab' = "submission"
  /\ IF requestPath = "/" THEN SubmissionMounts ELSE SubmissionUnmounted
  /\ UNCHANGED <<session, redirects, exportVars, mapVars>>

\* A sign-in completes (the login page is outside these sources): the
\* cookies hold a session from now on.
SessionBegins ==
  /\ requestPath = "none"
  /\ ~session
  /\ session' = TRUE
  /\ UNCHANGED <<requestPath, redirects, sitePage, lastDecision, activeTab,
                 subFilterVars, submissions, subLoading, subInflight,
                 subEvent, exportVars, mapVars>>

\* The session expires or is ended elsewhere.
SessionEnds ==
  /\ requestPath = "none"
  /\ session
  /\ session' = FALSE
  /\ UNCHANGED <<requestPath, redirects, sitePage, lastDecision, activeTab,
                 subFilterVars, submissions, subLoading, subInflight,
                 subEvent, exportVars, mapVars>>

\* handleLogout (DashboardTabs.tsx lines 14-18): sign out, then open
\* "/login".
HandleLogout ==
  /\ sitePage = "/"
  /\ requestPath = "none"
  /\ session' = FALSE
  /\ requestPath' = "/login"
  /\ redirects' = 0
  /\ UNCHANGED <<sitePage, lastDecision, activeTab, subFilterVars,
                 submissions, subLoading, subInflight, subEvent, exportVars,
                 mapVars>>

\* A click on a tab button (DashboardTabs.tsx lines 29 and 39). The other
\* dashboard replaces the one shown (line 62); the tab already active
\* changes nothing.
SelectTab(tab) ==
  /\ sitePage = "/"
  /\ tab # activeTab
  /\ activeTab' = tab
  /\ IF tab = "submission" THEN SubmissionMounts ELSE SubmissionUnmounted
  /\ UNCHANGED <<navVars, exportVars, mapVars>>

\* SetTransportFilter as it would be if the filter were a dependency of
\* the effect that calls fetchData: the click also sends a request.
SetTransportFilterFetches(type) ==
  /\ SubmissionShown
  /\ ~subLoading
  /\ transportFilter' = IF type = transportFilter THEN NoTransport ELSE type
  /\ subLoading' = TRUE
  /\ subInflight' = Append(subInflight, QueryOf(transportFilter', emailFilter))
  /\ subEvent' = Event("edit")
  /\ UNCHANGED <<navVars, activeTab, emailFilter, searchTerm, sortConfig,
                 submissions, exportVars, mapVars>>

\* A click on a transport button (line 293); the buttons are disabled
\* while loading.
SetTransportFilter(type) ==
  /\ SubmissionShown
  /\ ~subLoading
  /\ transportFilter' = IF type = transportFilter THEN NoTransport ELSE type
  /\ subEvent' = Event("edit")
  /\ UNCHANGED <<navVars, activeTab, emailFilter, searchTerm, sortConfig,
                 submissions, subLoading, subInflight, exportVars, mapVars>>

\* Typing in the e-mail filter (line 443), disabled while loading.
SetEmailFilter(value) ==
  /\ SubmissionShown
  /\ ~subLoading
  /\ value # emailFilter
  /\ emailFilter' = value
  /\ subEvent' = Event("edit")
  /\ UNCHANGED <<navVars, activeTab, transportFilter, searchTerm, sortConfig,
                 submissions, subLoading, subInflight, exportVars, mapVars>>

\* Typing in the search box (line 284); it is never disabled.
SetSearchTerm(value) ==
  /\ SubmissionShown
  /\ value # searchTerm
  /\ searchTerm' = value
  /\ subEvent' = Event("search")
  /\ UNCHANGED <<navVars, activeTab, transportFilter, emailFilter, sortConfig,
                 submissions, subLoading, subInflight, exportVars, mapVars>>

\* A click on a column header (lines 522-580); never disabled.
HandleSort(key) ==
  /\ SubmissionShown
  /\ sortConfig' = NextSort(sortConfig, key)
  /\ subEvent' = [name |-> "sort", key |-> key]
  /\ UNCHANGED <<navVars, activeTab, transportFilter, emailFilter, searchTerm,
                 submissions, subLoading, subInflight, exportVars, mapVars>>

\* clearFilters (lines 103-120), button disabled while loading.
ClearFilters ==
  /\ SubmissionShown
  /\ ~subLoading
  /\ transportFilter' = NoTransport
  /\ emailFilter' = ""
  /\ searchTerm' = ""
  /\ sortConfig' = NoSort
  /\ subEvent' = Event("clear")
  /\ UNCHANGED <<navVars, activeTab, submissions, subLoading, subInflight,
                 exportVars, mapVars>>

\* applyFilters (lines 123-125), button disabled while loading: fetchData
\* with the filters of this render.
SubmissionApplyFilters ==
  /\ SubmissionShown
  /\ ~subLoading
  /\ subLoading' = TRUE
  /\ subInflight' = Append(subInflight, QueryOf(transportFilter, emailFilter))
  /\ subEvent' = Event("apply")
  /\ UNCHANGED <<navVars, activeTab, subFilterVars, submissions, exportVars,
                 mapVars>>

\* fetchData receives an ok response (lines 84-88).
SubmissionFetchOk(result) ==
  /\ subInflight # << >>
  /\ subInflight' = Tail(subInflight)
  /\ submissions' = result
  /\ subLoading' = FALSE
  /\ subEvent' = Event("ok")
  /\ UNCHANGED <<navVars, activeTab, subFilterVars, exportVars, mapVars>>

\* fetchData's request fails or is answered with an error status (lines
\* 85 and 89-93): the rows stay, nothing is shown.
SubmissionFetchFailed ==
  /\ subInflight # << >>
  /\ subInflight' = Tail(subInflight)
  /\ subLoading' = FALSE
  /\ subEvent' = Event("failed")
  /\ UNCHANGED <<navVars, activeTab, subFilterVars, submissions, exportVars,
                 mapVars>>

SiteNext ==
  \/ \E pathname \in Paths : Navigate(pathname)
  \/ FollowRedirect
  \/ ServePage
  \/ SessionBegins
  \/ SessionEnds
  \/ HandleLogout
  \/ \E tab \in Tabs : SelectTab(tab)
  \/ \E type \in SubmissionTransports : SetTransportFilter(type)
  \/ \E value \in EmailTexts : SetEmailFilter(value)
  \/ \E value \in EmailTexts : SetSearchTerm(value)
  \/ \E key \in SortKeys : HandleSort(key)
  \/ ClearFilters
  \/ SubmissionApplyFilters
  \/ \E result \in SubmissionResults : SubmissionFetchOk(result)
  \/ SubmissionFetchFailed

SiteSpec == Init /\ [][SiteNext]_vars

(***************************************************************************)
(* Properties of SubmissionDashboard.                                      *)
(***************************************************************************)
\* The step sends a request to the dashboard endpoint.
SubmissionSends ==
  /\ subInflight' # << >>
  /\ subInflight' # subInflight
  /\ subInflight = << >> \/ subInflight' # Tail(subInflight)

\* C25: SubmissionDashboard sends a request only when it mounts and when
\* Apply Changes is clicked. An edit of a server-side filter, a search term,
\* a sort click and Clear All send none. The request of a mount has no
\* parameter and the request of Apply has the parameters of the filter
\* values on the screen at the click.
C25_Step ==
  /\ SubmissionSends => subEvent'.name \in {"mount", "apply"}
  /\ subEvent'.name \in {"edit", "search", "sort", "clear"}
       => subInflight' = subInflight
  /\ (SubmissionSends /\ subEvent'.name = "apply")
       => subInflight' =
            Append(subInflight, QueryOf(transportFilter, emailFilter))
  /\ (subEvent'.name = "mount" /\ subEvent.name # "mount")
       => subInflight' = <<{}>>

C25_RequestsOnMountAndApply == [][C25_Step]_vars

\* Apply Changes was clicked with both filters set, after edits that sent
\* nothing: only the request of the click is under way.
C25_Witness ==
  /\ subEvent.name = "apply"
  /\ subInflight =
       <<{<<"transportFilter", "Cycling">>, <<"emailSearch", "ann">>}>>

\* The sort state the cycle ascending, descending, unsorted gives after a
\* click on column key.
SortCycle(current, key) ==
  CASE current.key # key -> [key |-> key, direction |-> "asc"]
    [] current.key = key /\ current.direction = "asc" ->
         [key |-> key, direction |-> "desc"]
    [] current.key = key /\ current.direction = "desc" -> NoSort

\* C26: a click on a column other than the current sort key sorts by that
\* column ascending; a click on the current key turns ascending into
\* descending and descending into no sort.
C26_Step ==
  (subEvent'.name = "sort" /\ SubmissionShown /\ sortConfig' # sortConfig)
    => sortConfig' = SortCycle(sortConfig, subEvent'.key)

\* C26: in every sort state, three clicks in a row on a column that is not
\* the current key end in the unsorted state, and the sort state is null or
\* one of the columns with a direction.
C26_Inv ==
  /\ sortConfig = NoSort
       \/ (sortConfig.key \in SortKeys
           /\ sortConfig.direction \in {"asc", "desc"})
  /\ \A key \in SortKeys :
       sortConfig.key # key =>
         NextSort(NextSort(NextSort(sortConfig, key), key), key) = NoSort

C26_SortCycles == []C26_Inv /\ [][C26_Step]_vars

\* The second click in a row on one column: the table is sorted by it in
\* descending order.
C26_Witness ==
  /\ subEvent = [name |-> "sort", key |-> "email"]
  /\ sortConfig = [key |-> "email", direction |-> "desc"]

(***************************************************************************)
(* Properties of the middleware.                                           *)
(***************************************************************************)
\* The step serves the page of the request under way.
Served == requestPath # "none" /\ requestPath' = "none"

\* C27: the middleware handles requests for "/" and "/login" only. Without
\* a session it redirects a request for "/" to "/login" and passes one for
\* "/login" on; with a session it redirects a request for "/login" to "/"
\* and passes one for "/" on.
C27_Inv ==
  /\ lastDecision.pathname \in {"/", "/login"}
  /\ (~lastDecision.session /\ lastDecision.pathname # "/login")
       => (lastDecision.kind = "redirect" /\ lastDecision.to = "/login")
  /\ (lastDecision.session /\ lastDecision.pathname = "/login")
       => (lastDecision.kind = "redirect" /\ lastDecision.to = "/")
  /\ (~lastDecision.session /\ lastDecision.pathname = "/login")
       => (lastDecision.kind = "next" /\ lastDecision.to = "/login")
  /\ (lastDecision.session /\ lastDecision.pathname = "/")
       => (lastDecision.kind = "next" /\ lastDecision.to = "/")

\* C27: the page at "/" is served to requests with a session only, and a
\* request is served the page of the path the middleware passed on.
C27_Step ==
  /\ (Served /\ sitePage' = "/") => session
  /\ (Served /\ sitePage' \in Matcher)
       => (lastDecision'.kind = "next" /\ lastDecision'.to = sitePage'
           /\ lastDecision'.session = session)

C27_MiddlewareTable == []C27_Inv /\ [][C27_Step]_vars

\* A signed-in user opened "/login": the middleware answered with the
\* redirect to "/", and the browser is about to request "/".
C27_Witness ==
  /\ lastDecision =
       [session |-> TRUE, pathname |-> "/login", kind |-> "redirect",
        to |-> "/"]
  /\ requestPath = "/"
  /\ redirects = 1

\* C28: the session does not change while a navigation is under way
\* (sign-in, expiry and logout happen between navigations). The browser
\* then follows at most one redirect before a page is served: whatever
\* matched path is requested, a redirect of the middleware leads to a
\* matched path that it passes on under the same session.
C28_NoRedirectLoop ==
  /\ redirects <= 1
  /\ (requestPath \in Matcher /\ redirects = 1)
       => Middleware(session, requestPath).kind = "next"
  /\ \A pathname \in Matcher :
       LET answer == Middleware(session, pathname)
       IN answer.kind = "redirect"
            => (answer.to \in Matcher
                /\ Middleware(session, answer.to).kind = "next")

\* A navigation without a session that started at "/" has been served the
\* login page after one redirect.
C28_Witness ==
  /\ redirects = 1
  /\ requestPath = "none"
  /\ sitePage = "/login"
  /\ ~session
  /\ lastDecision.kind = "next"

====
